---------------------------- MODULE Spec2Model ----------------------------
(***************************************************************************)
(* Model of the configuration loader oy3o/conf: the tag-priority key      *)
(* resolver (resolveKeyName), the strict-environment audit                *)
(* (checkEnvStrict / recursiveEnvCheck), the validation dispatcher        *)
(* (Validator.Validate) and the orchestrator Load.                        *)
(*                                                                         *)
(* Go strings are sequences of one-character strings, so that ToUpper,    *)
(* ToLower, SplitN and Index are computed character by character.         *)
(***************************************************************************)
EXTENDS Integers, Sequences, FiniteSets, TLC

VARIABLES
    schema,     \* the root struct type T the program is instantiated with
    appName,    \* the application name passed to Load / checkEnvStrict
    file,       \* the configuration file: viper key -> [present, val]
    env,        \* the process environment: name -> [set, val]
    pc,         \* position of the call in progress
    op,         \* the operation in progress or just finished
    arg,        \* the value passed to checkEnvStrict / Validate
    cfg,        \* Load's local cfg
    result,     \* the error value of the call ([kind |-> "nil"] for nil)
    lookups,    \* variables read with os.Getenv by the audit, in order
    evaluated,  \* whether validate.Struct was invoked during the call
    steps,      \* Load's steps executed so far, in order
    bound,      \* leaf path -> environment variable the decoder consulted
    loaded,     \* the instance Load returns ([nil |-> TRUE] for nil)
    probe,      \* the struct field handed to resolveKeyName
    resolved,   \* resolveKeyName's and the naming callback's result for probe
    previous    \* what a caller that keeps it has of the audit call before

vars == <<schema, appName, file, env, pc, op, arg, cfg, result,
          lookups, evaluated, steps, bound, loaded, probe, resolved,
          previous>>

---------------------------------------------------------------------------
(* Strings *)

LowerLetters == <<"a","b","c","d","e","f","g","h","i","j","k","l","m",
                  "n","o","p","q","r","s","t","u","v","w","x","y","z">>
UpperLetters == <<"A","B","C","D","E","F","G","H","I","J","K","L","M",
                  "N","O","P","Q","R","S","T","U","V","W","X","Y","Z">>

\* The case mappings of the ASCII letters.
UpperOf == [c \in { LowerLetters[i] : i \in 1..26 } |->
              UpperLetters[CHOOSE i \in 1..26 : LowerLetters[i] = c]]
LowerOf == [c \in { UpperLetters[i] : i \in 1..26 } |->
              LowerLetters[CHOOSE i \in 1..26 : UpperLetters[i] = c]]

ToUpperChar(c) == IF c \in DOMAIN UpperOf THEN UpperOf[c] ELSE c

ToLowerChar(c) == IF c \in DOMAIN LowerOf THEN LowerOf[c] ELSE c

\* strings.ToUpper
ToUpper(s) == [i \in 1..Len(s) |-> ToUpperChar(s[i])]

\* strings.ToLower
ToLower(s) == [i \in 1..Len(s) |-> ToLowerChar(s[i])]

\* strings.Index(s, c) for a one-character c, 1-based; 0 when c is not in s
\* (Go's -1).
RECURSIVE IndexFrom(_, _, _)
IndexFrom(s, c, i) ==
    IF i > Len(s) THEN 0 ELSE IF s[i] = c THEN i ELSE IndexFrom(s, c, i + 1)
Index(s, c) == IndexFrom(s, c, 1)

\* strings.SplitN(tag, ",", 2)[0]
SplitFirst(tag) ==
    IF Index(tag, ",") = 0 THEN tag ELSE SubSeq(tag, 1, Index(tag, ",") - 1)

\* strings.NewReplacer(".", "_").Replace
ReplaceDots(s) == [i \in 1..Len(s) |-> IF s[i] = "." THEN "_" ELSE s[i]]

---------------------------------------------------------------------------
(* Words used by the schemas below *)

w_app        == <<"m","y","a","p","p">>
w_host       == <<"h","o","s","t">>
w_port       == <<"p","o","r","t">>
w_password   == <<"p","a","s","s","w","o","r","d">>
w_app_name   == <<"a","p","p","_","n","a","m","e">>
w_database   == <<"d","a","t","a","b","a","s","e">>
w_sub        == <<"s","u","b">>
w_api_key    == <<"a","p","i","_","k","e","y">>
w_db_host    == <<"d","b","_","h","o","s","t">>
w_db_port    == <<"d","b","_","p","o","r","t">>
w_db_user    == <<"d","b","_","u","s","e","r">>
w_user       == <<"u","s","e","r">>
w_u          == <<"u">>
w_user_name  == <<"u","s","e","r","_","n","a","m","e">>
w_u_name     == <<"u","_","n","a","m","e">>
w_settings   == <<"s","e","t","t","i","n","g","s">>
w_theme_mode == <<"t","h","e","m","e","_","m","o","d","e">>
w_token      == <<"t","o","k","e","n">>
w_inner      == <<"i","n","n","e","r">>
w_omitempty  == <<"o","m","i","t","e","m","p","t","y">>
w_dash       == <<"-">>
w_dark       == <<"d","a","r","k">>
w_blue       == <<"b","l","u","e">>
w_secret     == <<"s","3","c","r","3","t">>
w_leaked     == <<"l","e","a","k","e","d">>
w_TestApp    == <<"T","e","s","t","A","p","p">>

n_AppName    == <<"A","p","p","N","a","m","e">>
n_Database   == <<"D","a","t","a","b","a","s","e">>
n_Host       == <<"H","o","s","t">>
n_Port       == <<"P","o","r","t">>
n_Password   == <<"P","a","s","s","w","o","r","d">>
n_Sub        == <<"S","u","b">>
n_ApiKey     == <<"A","p","i","K","e","y">>
n_APIKey     == <<"A","P","I","K","e","y">>
n_User       == <<"U","s","e","r">>
n_Username   == <<"U","s","e","r","n","a","m","e">>
n_Age        == <<"A","g","e">>
n_Ignored    == <<"I","g","n","o","r","e","d">>
n_Settings   == <<"S","e","t","t","i","n","g","s">>
n_Theme      == <<"T","h","e","m","e">>
n_Token      == <<"T","o","k","e","n">>
n_Pass       == <<"P","a","s","s">>
n_Skipped    == <<"S","k","i","p","p","e","d">>
n_secret     == <<"s","e","c","r","e","t">>
n_hidden     == <<"h","i","d","d","e","n">>

GO_ENV       == <<"G","O","_","E","N","V">>
APP_ENV      == <<"A","P","P","_","E","N","V">>
w_production == <<"p","r","o","d","u","c","t","i","o","n">>
w_prod       == <<"p","r","o","d">>
w_dev        == <<"d","e","v">>
w_PROD       == <<"P","R","O","D">>

---------------------------------------------------------------------------
(* reflect.StructField *)

NoTags == [mapstructure |-> <<>>, yaml |-> <<>>, json |-> <<>>, toml |-> <<>>,
           env |-> "", validate |-> ""]

NoDefault == [set |-> FALSE, val |-> <<>>]

\* A field of kind "string" or "int" is a leaf; "struct" and "ptr" name the
\* struct type Elem they hold or point to.
Field(name, tags, kind, elem, default) ==
    [Name |-> name, Tag |-> tags, Kind |-> kind, Elem |-> elem,
     Default |-> default]

\* field.Tag.Get(key): "" when the key is absent.
TagGet(field, key) == field.Tag[key]

\* field.IsExported(): the identifier starts with an upper-case letter.
IsExported(field) == field.Name[1] \in DOMAIN LowerOf   \* an upper-case letter

---------------------------------------------------------------------------
(* resolveKeyName: mapstructure > yaml > json > toml > field name *)

\* One family of resolveKeyName: [done |-> TRUE, name |-> key] when the
\* family returns, [done |-> FALSE] when control falls to the next family.
FamilyYamlFirst(field, key) ==
    LET k == IF key = "mapstructure" THEN "yaml"
             ELSE IF key = "yaml" THEN "mapstructure" ELSE key
        tag == TagGet(field, k)
        name == SplitFirst(tag)
    IN  IF tag # <<>> /\ name = w_dash THEN [done |-> TRUE, name |-> <<>>]
        ELSE IF tag # <<>> /\ name # <<>> THEN [done |-> TRUE, name |-> name]
        ELSE [done |-> FALSE, name |-> <<>>]

FamilyDashFallsThrough(field, key) ==
    LET tag == TagGet(field, key)
        name == SplitFirst(tag)
    IN  IF tag # <<>> /\ name # <<>> /\ name # w_dash
        THEN [done |-> TRUE, name |-> name]
        ELSE [done |-> FALSE, name |-> <<>>]

Family(field, key) ==
    LET tag == TagGet(field, key)
        name == SplitFirst(tag)
    IN  IF tag # <<>> /\ name = w_dash THEN [done |-> TRUE, name |-> <<>>]
        ELSE IF tag # <<>> /\ name # <<>> THEN [done |-> TRUE, name |-> name]
        ELSE [done |-> FALSE, name |-> <<>>]

\* The empty string is the Ignored key.
resolveKeyName(field) ==
    IF Family(field, "mapstructure").done THEN Family(field, "mapstructure").name
    ELSE IF Family(field, "yaml").done THEN Family(field, "yaml").name
    ELSE IF Family(field, "json").done THEN Family(field, "json").name
    ELSE IF Family(field, "toml").done THEN Family(field, "toml").name
    ELSE field.Name

---------------------------------------------------------------------------
(* Fields handed to resolveKeyName on its own *)

\* The values one naming annotation takes: absent, "-", a name, a name with
\* an option, an option without a name, "-" with an option.
TagValues(c) ==
    { <<>>, <<"-">>, <<c>>, <<c, ",", "o">>, <<",", "o">>, <<"-", ",", "o">> }

ProbeFields ==
    { Field(n,
            [mapstructure |-> m, yaml |-> y, json |-> j, toml |-> t,
             env |-> "", validate |-> ""],
            "string", "", NoDefault) :
        n \in { n_Host, n_secret },
        m \in TagValues("m"), y \in TagValues("y"),
        j \in TagValues("j"), t \in TagValues("t") }

NotResolved == [called |-> FALSE, key |-> <<>>, name |-> <<>>]

---------------------------------------------------------------------------
(* The schemas the program is instantiated with *)

Tags(m, y, j, t, e, v) ==
    [mapstructure |-> m, yaml |-> y, json |-> j, toml |-> t,
     env |-> e, validate |-> v]

\* The struct types, as sequences of fields in declaration order: the types
\* of the tests (UserConfig without Email and Role), and three more:
\* RuledRequest is LoginRequest with a rule on its second field, MaskedConfig
\* has unexported and ignored fields above env:"strict" leaves, TwinConfig
\* has two fields of UserConfig under one resolved name.
Fields(T) ==
    CASE T = "TestConfig" ->
           << Field(n_AppName, Tags(w_app_name, <<>>, <<>>, <<>>, "", ""),
                    "string", "", [set |-> TRUE, val |-> w_TestApp]),
              Field(n_Database, Tags(w_database, <<>>, <<>>, <<>>, "", ""),
                    "struct", "Database", NoDefault) >>
      [] T = "Database" ->
           << Field(n_Host, Tags(w_host, <<>>, <<>>, <<>>, "", "required"),
                    "string", "", NoDefault),
              Field(n_Port, Tags(w_port, <<>>, <<>>, <<>>, "", "min=1024"),
                    "int", "", [set |-> TRUE, val |-> 3306]),
              Field(n_Password, Tags(w_password, <<>>, <<>>, <<>>, "strict", ""),
                    "string", "", NoDefault) >>
      [] T = "StrictConfig" ->
           << Field(n_Password,
                    Tags(w_password \o <<",">> \o w_omitempty, <<>>, <<>>, <<>>,
                         "strict", ""),
                    "string", "", NoDefault),
              Field(n_Sub, Tags(w_sub, <<>>, <<>>, <<>>, "", ""),
                    "ptr", "StrictSub", NoDefault) >>
      [] T = "StrictSub" ->
           << Field(n_ApiKey, Tags(w_api_key, <<>>, <<>>, <<>>, "strict", ""),
                    "string", "", NoDefault) >>
      [] T = "MultiTagConfig" ->
           << Field(n_Host, Tags(<<>>, <<>>, w_db_host, <<>>, "strict", ""),
                    "string", "", NoDefault),
              Field(n_Port, Tags(<<>>, w_db_port, <<>>, <<>>, "", "min=1024"),
                    "int", "", NoDefault),
              Field(n_User, Tags(w_db_user, w_u, w_user, <<>>, "strict", ""),
                    "string", "", NoDefault) >>
      [] T = "UserConfig" ->
           << Field(n_Username,
                    Tags(w_user_name, <<>>, w_u_name, <<>>, "", "required"),
                    "string", "", NoDefault),
              Field(n_Age, Tags(<<>>, <<>>, <<>>, <<>>, "", "gte=18"),
                    "int", "", NoDefault),
              Field(n_Ignored, Tags(<<>>, <<>>, w_dash, <<>>, "", "required"),
                    "string", "", NoDefault),
              Field(n_Settings, Tags(w_settings, <<>>, <<>>, <<>>, "", ""),
                    "struct", "Settings", NoDefault) >>
      [] T = "Settings" ->
           << Field(n_Theme,
                    Tags(w_theme_mode, <<>>, <<>>, <<>>, "", "oneof=dark light"),
                    "string", "", NoDefault) >>
      [] T = "FastConfig" ->
           << Field(n_APIKey, Tags(w_api_key, <<>>, <<>>, <<>>, "", ""),
                    "string", "", NoDefault) >>
      [] T = "RuledRequest" ->
           << Field(n_User, Tags(<<>>, <<>>, <<>>, <<>>, "", ""),
                    "string", "", NoDefault),
              Field(n_Pass, Tags(<<>>, <<>>, <<>>, <<>>, "", "required"),
                    "string", "", NoDefault) >>
      [] T = "TwinConfig" ->
           << Field(n_Username,
                    Tags(w_user_name, <<>>, <<>>, <<>>, "", "required"),
                    "string", "", NoDefault),
              Field(n_Age, Tags(<<>>, <<>>, w_user_name, <<>>, "", "gte=18"),
                    "int", "", NoDefault) >>
      [] T = "MaskedConfig" ->
           << Field(n_secret, Tags(<<>>, <<>>, <<>>, <<>>, "strict", ""),
                    "string", "", NoDefault),
              Field(n_Skipped, Tags(w_dash, w_inner, <<>>, <<>>, "", ""),
                    "struct", "StrictSub", NoDefault),
              Field(n_hidden, Tags(<<>>, <<>>, <<>>, <<>>, "", ""),
                    "ptr", "StrictSub", NoDefault),
              Field(n_Token, Tags(<<>>, w_token, <<>>, <<>>, "strict", ""),
                    "string", "", NoDefault) >>

\* reflect.Type.Name() of a struct type.
TypeName(T) ==
    CASE T = "TestConfig"     -> <<"T","e","s","t","C","o","n","f","i","g">>
      [] T = "StrictConfig"   -> <<"S","t","r","i","c","t","C","o","n","f","i","g">>
      [] T = "MultiTagConfig" -> <<"M","u","l","t","i","T","a","g","C","o","n","f","i","g">>
      [] T = "UserConfig"     -> <<"U","s","e","r","C","o","n","f","i","g">>
      [] T = "FastConfig"     -> <<"F","a","s","t","C","o","n","f","i","g">>
      [] T = "RuledRequest"   -> <<"R","u","l","e","d","R","e","q","u","e","s","t">>
      [] T = "MaskedConfig"   -> <<"M","a","s","k","e","d","C","o","n","f","i","g">>
      [] T = "TwinConfig"     -> <<"T","w","i","n","C","o","n","f","i","g">>
      [] OTHER                -> <<"T">>

\* The root types; the others are reached through fields.
RootTypes == { "TestConfig", "StrictConfig", "MultiTagConfig", "UserConfig",
               "FastConfig", "RuledRequest", "MaskedConfig", "TwinConfig" }

AppNames == { <<>>, w_app }

IsLeaf(field) == field.Kind \in {"string", "int"}

---------------------------------------------------------------------------
(* Values: a struct is the tuple of its fields' values, a string a sequence *)
(* of characters, a pointer [nil, elem] (elem is read only when ~nil).      *)

RECURSIVE ZeroStruct(_)
ZeroField(field) ==
    CASE field.Kind = "string" -> <<>>
      [] field.Kind = "int"    -> 0
      [] field.Kind = "struct" -> ZeroStruct(field.Elem)
      [] field.Kind = "ptr"    -> [nil |-> TRUE, elem |-> ZeroStruct(field.Elem)]
ZeroStruct(T) == [i \in 1..Len(Fields(T)) |-> ZeroField(Fields(T)[i])]

\* A 32-character key, the length FastConfig.Validate asks for.
KeyLen == 32
LongKey == [i \in 1..KeyLen |-> "k"]

\* The values a leaf takes in the instances handed to checkEnvStrict and
\* Validate directly.
LeafValues(T, field) ==
    CASE field.Kind = "int" -> { 10, 5432 }
      [] T = "FastConfig"   -> { <<>>, LongKey }
      [] T = "Settings"     -> { w_blue, w_dark }
      [] OTHER              -> { <<>>, w_secret }

RECURSIVE StructValues(_), FirstFields(_, _)
FieldValues(T, field) ==
    CASE IsLeaf(field)         -> LeafValues(T, field)
      [] field.Kind = "struct" -> StructValues(field.Elem)
      [] field.Kind = "ptr"    ->
           { [nil |-> TRUE, elem |-> ZeroStruct(field.Elem)] } \cup
           { [nil |-> FALSE, elem |-> v] : v \in StructValues(field.Elem) }
\* The values of the first n fields of T.
FirstFields(T, n) ==
    IF n = 0 THEN { <<>> }
    ELSE { Append(t, v) : t \in FirstFields(T, n - 1),
                          v \in FieldValues(T, Fields(T)[n]) }
StructValues(T) == FirstFields(T, Len(Fields(T)))

\* The instances of the root types handed to checkEnvStrict and Validate.
InstancesOf == [T \in RootTypes |-> StructValues(T)]
Instances(T) == InstancesOf[T]

---------------------------------------------------------------------------
(* The process environment *)

Unset == [set |-> FALSE, val |-> <<>>]

\* os.Getenv: the empty string for a variable that is not set.
Getenv(name) ==
    IF name \in DOMAIN env /\ env[name].set THEN env[name].val ELSE <<>>

---------------------------------------------------------------------------
(* checkEnvStrict and recursiveEnvCheck *)

NilError == [kind |-> "nil"]

\* The fmt.Errorf of recursiveEnvCheck: field.Name, mapKey, currentKey.
ViolationError(name, mapKey, currentKey) ==
    [kind |-> "violation", field |-> name, tag |-> mapKey, var |-> currentKey]

DeploymentModeAppFirst ==
    ToLower(IF Getenv(APP_ENV) = <<>> THEN Getenv(GO_ENV) ELSE Getenv(APP_ENV))

DeploymentModeCached ==
    IF previous.called THEN previous.mode
    ELSE ToLower(IF Getenv(GO_ENV) = <<>> THEN Getenv(APP_ENV)
                 ELSE Getenv(GO_ENV))

\* The deployment mode checkEnvStrict reads: GO_ENV, APP_ENV when GO_ENV is
\* empty, lower-cased.
DeploymentMode ==
    ToLower(IF Getenv(GO_ENV) = <<>> THEN Getenv(APP_ENV) ELSE Getenv(GO_ENV))

\* The variables checkEnvStrict reads to find the mode, in order.
ModeLookups ==
    IF Getenv(GO_ENV) = <<>> THEN <<GO_ENV, APP_ENV>> ELSE <<GO_ENV>>

IsProductionAlways(mode) == TRUE

\* The negation of the early return of checkEnvStrict.
IsProduction(mode) == mode = w_production \/ mode = w_prod

composeKeyNoUpper(prefix, mapKey) ==
    IF prefix # <<>> THEN prefix \o <<"_">> \o mapKey ELSE mapKey

composeKeyLeadingSeparator(prefix, mapKey) ==
    ToUpper(prefix \o <<"_">> \o mapKey)

\* currentKey of recursiveEnvCheck.
composeKey(prefix, mapKey) ==
    IF prefix # <<>>
    THEN ToUpper(prefix \o <<"_">> \o mapKey)
    ELSE ToUpper(mapKey)

SkipsNilNever(val) == FALSE

\* val.IsNil() of a pointer value.
IsNil(val) == val.nil

\* derefType.Kind() == reflect.Struct, for a struct or a pointer to one.
HoldsStruct(field) == field.Kind \in {"struct", "ptr"}

\* field.Tag.Get("env") == "strict"
IsStrict(field) == TagGet(field, "env") = "strict"

\* recursiveEnvCheck(prefix, val) for a val of struct type T (isPtr: a
\* pointer to one), as [err, looked]: the error returned and the variables
\* read with os.Getenv, in order.  walkFields is its loop from field i on.
RECURSIVE recursiveEnvCheck(_, _, _, _), walkFields(_, _, _, _)
recursiveEnvCheck(prefix, val, isPtr, T) ==
    IF isPtr /\ IsNil(val)
    THEN [err |-> NilError, looked |-> <<>>]
    ELSE walkFields(prefix, IF isPtr THEN val.elem ELSE val, T, 1)

IsIgnoredNever(mapKey) == FALSE

\* mapKey == "": the field is ignored.
IsIgnored(mapKey) == mapKey = <<>>

walkFieldsLastViolation(prefix, val, T, i) ==
    IF i > Len(Fields(T))
    THEN [err |-> NilError, looked |-> <<>>]
    ELSE
      LET field    == Fields(T)[i]
          fieldVal == val[i]
          mapKey   == resolveKeyName(field)
          currentKey == composeKey(prefix, mapKey)
          rest     == walkFields(prefix, val, T, i + 1)
      IN  IF ~IsExported(field) THEN rest
          ELSE IF IsIgnored(mapKey) THEN rest
          ELSE IF HoldsStruct(field)
          THEN LET sub == recursiveEnvCheck(currentKey, fieldVal,
                                            field.Kind = "ptr", field.Elem)
               IN  [err |-> IF rest.err.kind # "nil" THEN rest.err ELSE sub.err,
                    looked |-> sub.looked \o rest.looked]
          ELSE IF IsStrict(field)
          THEN [err |-> IF rest.err.kind # "nil" THEN rest.err
                        ELSE IF Getenv(currentKey) = <<>>
                        THEN ViolationError(field.Name, mapKey, currentKey)
                        ELSE NilError,
                looked |-> <<currentKey>> \o rest.looked]
          ELSE rest

walkFields(prefix, val, T, i) ==
    IF i > Len(Fields(T))
    THEN [err |-> NilError, looked |-> <<>>]
    ELSE
      LET field    == Fields(T)[i]
          fieldVal == val[i]
          mapKey   == resolveKeyName(field)
          currentKey == composeKey(prefix, mapKey)
          rest     == walkFields(prefix, val, T, i + 1)
      IN  IF ~IsExported(field) THEN rest
          ELSE IF IsIgnored(mapKey) THEN rest
          ELSE IF HoldsStruct(field)
          THEN LET sub == recursiveEnvCheck(currentKey, fieldVal,
                                            field.Kind = "ptr", field.Elem)
               IN  IF sub.err.kind # "nil" THEN sub
                   ELSE [err |-> rest.err, looked |-> sub.looked \o rest.looked]
          ELSE IF IsStrict(field)
          THEN IF Getenv(currentKey) = <<>>
               THEN [err |-> ViolationError(field.Name, mapKey, currentKey),
                     looked |-> <<currentKey>>]
               ELSE [err |-> rest.err, looked |-> <<currentKey>> \o rest.looked]
          ELSE rest

\* checkEnvStrict(appName, cfg) for cfg a pointer to the struct value val of
\* type T.
checkEnvStrict(app, val, T) ==
    IF ~IsProduction(DeploymentMode)
    THEN [err |-> NilError, looked |-> ModeLookups]
    ELSE LET r == recursiveEnvCheck(app, val, FALSE, T)
         IN  [err |-> r.err, looked |-> ModeLookups \o r.looked]

---------------------------------------------------------------------------
(* validator.New and Validator.Validate *)

\* One family of the callback given to RegisterTagNameFunc.
TagFamily(fld, key) ==
    LET tag == TagGet(fld, key)
        name == SplitFirst(tag)
    IN  IF tag # <<>> /\ name = w_dash THEN [done |-> TRUE, name |-> <<>>]
        ELSE IF tag # <<>> /\ name # <<>> THEN [done |-> TRUE, name |-> name]
        ELSE [done |-> FALSE, name |-> <<>>]

TagNameFuncIdentifier(fld) == fld.Name

\* The callback given to RegisterTagNameFunc.
TagNameFunc(fld) ==
    IF TagFamily(fld, "mapstructure").done THEN TagFamily(fld, "mapstructure").name
    ELSE IF TagFamily(fld, "yaml").done THEN TagFamily(fld, "yaml").name
    ELSE IF TagFamily(fld, "json").done THEN TagFamily(fld, "json").name
    ELSE IF TagFamily(fld, "toml").done THEN TagFamily(fld, "toml").name
    ELSE fld.Name

\* The name the rule evaluator reports a field under: the callback's result,
\* the identifier when the callback returns the empty string.
ReportedName(fld) ==
    IF TagNameFunc(fld) # <<>> THEN TagNameFunc(fld) ELSE fld.Name

\* The rule evaluator's verdict on one leaf: whether value v breaks the rule
\* of the validate annotation.
Violates(rule, kind, v) ==
    CASE rule = "required" /\ kind = "string" -> v = <<>>
      [] rule = "required" /\ kind = "int"    -> v = 0
      [] rule = "min=1024"                    -> v < 1024
      [] rule = "gte=18"                      -> v < 18
      [] rule = "oneof=dark light"            -> v \notin { w_dark,
                                                   <<"l","i","g","h","t">> }
      [] OTHER                                -> FALSE

\* validate.Struct on the struct value val of type T: the field errors in
\* field order, each with its namespace; ns is the namespace so far and
\* structErrors the loop from field i on.
RECURSIVE structErrors(_, _, _, _)
structErrors(val, T, ns, i) ==
    IF i > Len(Fields(T)) THEN <<>>
    ELSE
      LET fld  == Fields(T)[i]
          rest == structErrors(val, T, ns, i + 1)
          name == ns \o ReportedName(fld)
      IN  IF ~IsExported(fld) THEN rest
          ELSE IF fld.Kind = "struct"
          THEN structErrors(val[i], fld.Elem, name \o <<".">>, 1) \o rest
          ELSE IF fld.Kind = "ptr"
          THEN (IF val[i].nil THEN <<>>
                ELSE structErrors(val[i].elem, fld.Elem, name \o <<".">>, 1))
               \o rest
          ELSE IF Violates(TagGet(fld, "validate"), fld.Kind, val[i])
          THEN << [ns |-> name, rule |-> TagGet(fld, "validate")] >> \o rest
          ELSE rest

ValidateStruct(val, T) == structErrors(val, T, TypeName(T) \o <<".">>, 1)

StripNothing(namespace) == namespace

\* The namespace with the struct prefix removed.
StripRoot(namespace) ==
    IF Index(namespace, ".") # 0
    THEN SubSeq(namespace, Index(namespace, ".") + 1, Len(namespace))
    ELSE namespace

\* The message stored for a field error: translated when the validator has a
\* translator, the rule as written (tag, or tag=param) when it has none.
Message(e, trans) == [text |-> e.rule, translated |-> trans]

\* translatedErrors: the loop assigns in order, a later error of the same
\* namespace replaces an earlier one.
ErrorMap(errs, trans) ==
    [ n \in { StripRoot(errs[k].ns) : k \in 1..Len(errs) } |->
        LET last == CHOOSE k \in 1..Len(errs) :
                       /\ StripRoot(errs[k].ns) = n
                       /\ \A j \in (k+1)..Len(errs) : StripRoot(errs[j].ns) # n
        IN  Message(errs[last], trans) ]

\* The types with a method Validate() error; both have a pointer receiver.
HasValidateMethod(T) == T \in { "FastConfig", "RuledRequest" }

\* The method's result.
SelfValidate(val, T) ==
    CASE T = "FastConfig" ->
           IF Len(val[1]) # KeyLen
           THEN [kind |-> "self", msg |-> "api_key must be 32 chars"]
           ELSE NilError
      [] T = "RuledRequest" ->
           IF val[1] = <<>>
           THEN [kind |-> "self", msg |-> "user required"]
           ELSE NilError

IsSelfValidatableNever(T, byPtr) == FALSE

\* i.(SelfValidatable): the method set of *T holds the method, that of T
\* does not.
IsSelfValidatable(T, byPtr) == HasValidateMethod(T) /\ byPtr

\* Validator.Validate(i) for i the struct value val of type T, passed as a
\* pointer when byPtr; trans tells whether the validator has a translator.
\* [err, evaluated]: the error returned and whether validate.Struct ran.
Validate(val, T, byPtr, trans) ==
    IF IsSelfValidatable(T, byPtr)
    THEN [err |-> SelfValidate(val, T), evaluated |-> FALSE]
    ELSE LET errs == ValidateStruct(val, T)
         IN  IF errs = <<>>
             THEN [err |-> NilError, evaluated |-> TRUE]
             ELSE [err |-> [kind |-> "validation",
                            Errors |-> ErrorMap(errs, trans)],
                   evaluated |-> TRUE]

\* The values handed to Validate that are no struct and no pointer to one:
\* the nil interface, an int, a pointer to an int.  None has a method.
NonStructInputs == { "nil", "int", "ptr-int" }

IsInvalidValidationErrorNever(err) == FALSE

\* err.(*validator.InvalidValidationError)
IsInvalidValidationError(err) == err.kind = "InvalidValidationError"

\* Validator.Validate(i) for i one of NonStructInputs: i.(SelfValidatable)
\* fails, validate.Struct returns an InvalidValidationError, which is
\* wrapped; asserting it to validator.ValidationErrors would panic.
ValidateNonStruct(shape) ==
    LET err == [kind |-> "InvalidValidationError", type |-> shape]
    IN  IF IsInvalidValidationError(err)
        THEN [err |-> [kind |-> "invalid", type |-> shape], evaluated |-> TRUE]
        ELSE [err |-> [kind |-> "panic", type |-> shape], evaluated |-> TRUE]

---------------------------------------------------------------------------
(* Paths: a path is the sequence of field indices from the root type down *)

RECURSIVE LeafPaths(_)
LeafPaths(T) ==
    UNION { IF IsLeaf(Fields(T)[i])
            THEN { <<i>> }
            ELSE { <<i>> \o q : q \in LeafPaths(Fields(T)[i].Elem) } :
            i \in 1..Len(Fields(T)) }

\* The fields along path p, from the root type T down.
RECURSIVE FieldsAlong(_, _)
FieldsAlong(T, p) ==
    IF p = <<>> THEN <<>>
    ELSE <<Fields(T)[Head(p)]>> \o
         (IF Len(p) = 1 THEN <<>>
          ELSE FieldsAlong(Fields(T)[Head(p)].Elem, Tail(p)))

\* The strings of ss joined with the separator sep.
RECURSIVE Join(_, _)
Join(ss, sep) ==
    IF ss = <<>> THEN <<>>
    ELSE IF Len(ss) = 1 THEN ss[1]
    ELSE ss[1] \o sep \o Join(Tail(ss), sep)

---------------------------------------------------------------------------
(* Load: defaults, viper, mapstructure *)

\* defaults.SetDefaults on a fresh value of type T.  Whether the defaults
\* library allocates a nil pointer to a struct is left open: alloc.
RECURSIVE SetDefaults(_, _)
SetDefaults(T, alloc) ==
    [i \in 1..Len(Fields(T)) |->
        LET field == Fields(T)[i]
        IN  CASE IsLeaf(field) ->
                   IF field.Default.set /\ IsExported(field)
                   THEN field.Default.val ELSE ZeroField(field)
              [] field.Kind = "struct" ->
                   IF IsExported(field) THEN SetDefaults(field.Elem, alloc)
                   ELSE ZeroField(field)
              [] field.Kind = "ptr" ->
                   IF alloc /\ IsExported(field)
                   THEN [nil |-> FALSE, elem |-> SetDefaults(field.Elem, alloc)]
                   ELSE ZeroField(field)]

\* The name mapstructure matches a field under with TagName "mapstructure":
\* the annotation's name-before-options, the identifier when it is empty.
DecoderKeyName(field) ==
    IF SplitFirst(TagGet(field, "mapstructure")) # <<>>
    THEN SplitFirst(TagGet(field, "mapstructure"))
    ELSE field.Name

\* The viper key of the leaf at path p: keys are case-insensitive and kept
\* lower-cased, nested keys are joined with ".".
ViperKeyOf ==
    [T \in RootTypes |-> [p \in LeafPaths(T) |->
        ToLower(Join([k \in 1..Len(p) |-> DecoderKeyName(FieldsAlong(T, p)[k])],
                     <<".">>))]]
ViperKey(T, p) == ViperKeyOf[T][p]

\* The variable AutomaticEnv reads for a key, with SetEnvPrefix(appName) and
\* SetEnvKeyReplacer(".", "_").
DecoderEnvVar(app, key) ==
    ReplaceDots(IF app # <<>> THEN ToUpper(app \o <<"_">> \o key)
                ELSE ToUpper(key))

\* The leaves mapstructure can set: reached through exported fields that are
\* not named "-".
DecodablePathsOf ==
    [T \in RootTypes |->
        { p \in LeafPaths(T) :
            \A k \in 1..Len(p) :
                /\ IsExported(FieldsAlong(T, p)[k])
                /\ DecoderKeyName(FieldsAlong(T, p)[k]) # w_dash }]
DecodablePaths(T) == DecodablePathsOf[T]

DecoderKeysOf == [T \in RootTypes |-> { ViperKey(T, p) : p \in DecodablePaths(T) }]
DecoderKeys(T) == DecoderKeysOf[T]

\* The key a file written after the resolved names would use for a leaf.
ResolvedFileKey(T, p) ==
    ToLower(Join([k \in 1..Len(p) |-> resolveKeyName(FieldsAlong(T, p)[k])],
                 <<".">>))

\* The keys of the files explored: the decoder's keys, and the keys built
\* from the resolved names where they differ.
FileKeys(T) ==
    DecoderKeys(T) \cup
    { ResolvedFileKey(T, p) : p \in
        { q \in DecodablePaths(T) :
            \A k \in 1..Len(q) : resolveKeyName(FieldsAlong(T, q)[k]) # <<>> } }

\* Whether the decoder matches an integer leaf under the key.
IsIntKey(T, key) ==
    \E p \in DecodablePaths(T) :
        ViperKey(T, p) = key /\ FieldsAlong(T, p)[Len(p)].Kind = "int"

\* What the file holds for a key: nothing, or one of a few values.
FileValues(T, key) ==
    IF IsIntKey(T, key)
    THEN { [present |-> FALSE, val |-> 0],
           [present |-> TRUE, val |-> 80], [present |-> TRUE, val |-> 5432] }
    ELSE IF T = "FastConfig"
    THEN { [present |-> FALSE, val |-> <<>>],
           [present |-> TRUE, val |-> <<"k">>],
           [present |-> TRUE, val |-> LongKey] }
    ELSE { [present |-> FALSE, val |-> <<>>],
           [present |-> TRUE, val |-> w_leaked] }

\* The configuration files over the keys K; no file found is the file with
\* no key present.
RECURSIVE FilesOver(_, _)
FilesOver(T, K) ==
    IF K = {} THEN { <<>> }
    ELSE LET k == CHOOSE x \in K : TRUE
         IN  { f @@ (k :> v) : f \in FilesOver(T, K \ {k}),
                               v \in FileValues(T, k) }

FilesOf == [T \in RootTypes |-> FilesOver(T, FileKeys(T))]
Files(T) == FilesOf[T]

NoFile == [bad |-> FALSE, keys |-> <<>>]

\* ErrorUnused: the file holds a key no field is matched under.
HasUnusedKey(f, T) ==
    \E k \in DOMAIN f.keys : f.keys[k].present /\ k \notin DecoderKeys(T)

\* The value v.Unmarshal gives the leaf at path p, old being the value the
\* field holds: a key viper knows from the file is read through AutomaticEnv
\* (a non-empty variable wins over the file); a key it does not know leaves
\* the field alone.  Integer leaves take the file's value: their variables
\* are not set in the environments explored.
DecodeLeaf(f, app, T, p, old) ==
    LET key == ViperKey(T, p)
        field == FieldsAlong(T, p)[Len(p)]
    IN  IF p \in DecodablePaths(T) /\ key \in DOMAIN f.keys /\ f.keys[key].present
        THEN IF field.Kind = "string" /\ Getenv(DecoderEnvVar(app, key)) # <<>>
             THEN Getenv(DecoderEnvVar(app, key))
             ELSE f.keys[key].val
        ELSE old

\* Whether the file holds a key below path p.
HasKeyBelow(f, T, p) ==
    \E q \in DecodablePaths(T) :
        /\ Len(q) > Len(p) /\ SubSeq(q, 1, Len(p)) = p
        /\ ViperKey(T, q) \in DOMAIN f.keys /\ f.keys[ViperKey(T, q)].present

\* v.Unmarshal(&cfg) into the struct value val of type S at path p of the
\* root type T.
RECURSIVE Unmarshal(_, _, _, _, _, _)
Unmarshal(f, app, T, S, p, val) ==
    [i \in 1..Len(Fields(S)) |->
        LET field == Fields(S)[i]
            q == p \o <<i>>
        IN  CASE IsLeaf(field) -> DecodeLeaf(f, app, T, q, val[i])
              [] field.Kind = "struct" ->
                   Unmarshal(f, app, T, field.Elem, q, val[i])
              [] field.Kind = "ptr" ->
                   IF HasKeyBelow(f, T, q)
                   THEN [nil |-> FALSE,
                         elem |-> Unmarshal(f, app, T, field.Elem, q, val[i].elem)]
                   ELSE val[i]]

\* The variable the decoder reads for each leaf whose key viper knows.
Bindings(f, app, T) ==
    [p \in { q \in DecodablePaths(T) :
               ViperKey(T, q) \in DOMAIN f.keys /\ f.keys[ViperKey(T, q)].present }
       |-> DecoderEnvVar(app, ViperKey(T, p))]

---------------------------------------------------------------------------
(* The environments explored *)

\* The resolved keys of the fields along path p.
ResolvedKeys(T, p) ==
    [k \in 1..Len(p) |-> resolveKeyName(FieldsAlong(T, p)[k])]

\* Upper-cased, "_"-joined name of the application name (when not empty)
\* followed by the keys.
QualifiedName(app, keys) ==
    ToUpper(Join((IF app = <<>> THEN <<>> ELSE <<app>>) \o keys, <<"_">>))

\* The leaves marked env:"strict".
StrictPaths(T) ==
    { p \in LeafPaths(T) : TagGet(FieldsAlong(T, p)[Len(p)], "env") = "strict" }

\* The variables that are set and unset: the two mode variables and, for
\* each env:"strict" leaf, the variable named after its resolved keys and
\* the variable the decoder reads.
EnvNames(app, T) ==
    { GO_ENV, APP_ENV }
    \cup { QualifiedName(app, ResolvedKeys(T, p)) :
             p \in { q \in StrictPaths(T) :
                       \A k \in 1..Len(q) :
                          /\ IsExported(FieldsAlong(T, q)[k])
                          /\ resolveKeyName(FieldsAlong(T, q)[k]) # <<>> } }
    \cup { DecoderEnvVar(app, ViperKey(T, p)) :
             p \in StrictPaths(T) \cap DecodablePaths(T) }

EnvValues(name) ==
    IF name = GO_ENV THEN { <<>>, w_dev, w_production, w_PROD }
    ELSE IF name = APP_ENV THEN { w_prod }
    ELSE { <<>>, w_secret }

---------------------------------------------------------------------------
(* Actions *)

NoArg == [val |-> <<>>, byPtr |-> FALSE, trans |-> FALSE]
NoInstance == [nil |-> TRUE, val |-> <<>>]
NoBinding == <<>>
NoPrevious == [called |-> FALSE, val |-> <<>>, mode |-> <<>>, err |-> NilError]

\* os.Setenv between two calls.
Setenv ==
    /\ pc = "idle"
    /\ \E name \in DOMAIN env : \E v \in EnvValues(name) :
          /\ env[name] # [set |-> TRUE, val |-> v]
          /\ env' = [env EXCEPT ![name] = [set |-> TRUE, val |-> v]]
    /\ UNCHANGED <<schema, appName, file, pc, op, arg, cfg, result, lookups,
                   evaluated, steps, bound, loaded, probe, resolved,
                   previous>>

\* os.Unsetenv between two calls.
Unsetenv ==
    /\ pc = "idle"
    /\ \E name \in DOMAIN env :
          /\ env[name].set
          /\ env' = [env EXCEPT ![name] = Unset]
    /\ UNCHANGED <<schema, appName, file, pc, op, arg, cfg, result, lookups,
                   evaluated, steps, bound, loaded, probe, resolved,
                   previous>>

\* A direct call checkEnvStrict(appName, &v).
CallCheckEnvStrict ==
    /\ pc = "idle"
    /\ \E v \in Instances(schema) :
          LET r == checkEnvStrict(appName, v, schema)
          IN  /\ arg' = [val |-> v, byPtr |-> TRUE, trans |-> FALSE]
              /\ result' = r.err
              /\ lookups' = r.looked
    /\ op' = "checkEnvStrict"
    /\ pc' = "done"
    /\ UNCHANGED <<schema, appName, file, env, cfg, evaluated, steps, bound,
                   loaded, probe, resolved, previous>>

\* A direct call val.Validate(v) or val.Validate(&v), on a validator made
\* with or without a locale.
CallValidate ==
    /\ pc = "idle"
    /\ \E v \in Instances(schema), byPtr \in BOOLEAN, trans \in BOOLEAN :
          LET r == Validate(v, schema, byPtr, trans)
          IN  /\ arg' = [val |-> v, byPtr |-> byPtr, trans |-> trans]
              /\ result' = r.err
              /\ evaluated' = r.evaluated
    /\ op' = "Validate"
    /\ pc' = "done"
    /\ UNCHANGED <<schema, appName, file, env, cfg, lookups, steps, bound,
                   loaded, probe, resolved, previous>>

\* A direct call val.Validate(i) for i nil, an int or a pointer to an int.
CallValidateNonStruct ==
    /\ pc = "idle"
    /\ \E shape \in NonStructInputs, trans \in BOOLEAN :
          LET r == ValidateNonStruct(shape)
          IN  /\ arg' = [val |-> <<shape>>, byPtr |-> shape = "ptr-int",
                         trans |-> trans]
              /\ result' = r.err
              /\ evaluated' = r.evaluated
    /\ op' = "ValidateNonStruct"
    /\ pc' = "done"
    /\ UNCHANGED <<schema, appName, file, env, cfg, lookups, steps, bound,
                   loaded, probe, resolved, previous>>

\* Load, step 1: defaults.SetDefaults(&cfg).
LoadDefaults ==
    /\ pc = "idle"
    /\ \E alloc \in BOOLEAN : cfg' = SetDefaults(schema, alloc)
    /\ op' = "Load"
    /\ steps' = <<"defaults">>
    /\ pc' = "defaulted"
    /\ UNCHANGED <<schema, appName, file, env, arg, result, lookups, evaluated,
                   bound, loaded, probe, resolved, previous>>

\* Load, steps 2 to 5: v.ReadInConfig() and v.Unmarshal(&cfg) on the file
\* found, which is any of the files explored or one that does not parse.
LoadDecode ==
    /\ pc = "defaulted"
    /\ steps' = Append(steps, "decode")
    /\ \E f \in { [bad |-> FALSE, keys |-> k] : k \in Files(schema) }
                \cup { [bad |-> TRUE, keys |-> <<>>] } :
          /\ file' = f
          /\ IF f.bad
             THEN /\ result' = [kind |-> "read"]
                  /\ pc' = "done"
                  /\ UNCHANGED <<cfg, bound>>
             ELSE IF HasUnusedKey(f, schema)
             THEN /\ result' = [kind |-> "unmarshal"]
                  /\ pc' = "done"
                  /\ UNCHANGED <<cfg, bound>>
             ELSE /\ cfg' = Unmarshal(f, appName, schema, schema, <<>>, cfg)
                  /\ bound' = Bindings(f, appName, schema)
                  /\ pc' = "decoded"
                  /\ UNCHANGED result
    /\ UNCHANGED <<schema, appName, env, op, arg, lookups, evaluated, loaded,
                   probe, resolved, previous>>

LoadAuditIgnoresError ==
    /\ pc = "decoded"
    /\ steps' = Append(steps, "audit")
    /\ LET r == checkEnvStrict(appName, cfg, schema)
       IN  /\ lookups' = r.looked
           /\ result' = r.err
           /\ pc' = "audited"
    /\ UNCHANGED <<schema, appName, file, env, op, arg, cfg, evaluated, bound,
                   loaded, probe, resolved, previous>>

\* Load, step 6: checkEnvStrict(appName, &cfg).
LoadAudit ==
    /\ pc = "decoded"
    /\ steps' = Append(steps, "audit")
    /\ LET r == checkEnvStrict(appName, cfg, schema)
       IN  /\ lookups' = r.looked
           /\ result' = r.err
           /\ pc' = IF r.err.kind # "nil" THEN "done" ELSE "audited"
    /\ UNCHANGED <<schema, appName, file, env, op, arg, cfg, evaluated, bound,
                   loaded, probe, resolved, previous>>

\* Load, step 7: validator.New(o.locale) with the default locale, then
\* val.Validate(&cfg); Load returns &cfg when it finds no error.
LoadValidate ==
    /\ pc = "audited"
    /\ steps' = Append(steps, "validate")
    /\ LET r == Validate(cfg, schema, TRUE, TRUE)
       IN  /\ result' = r.err
           /\ evaluated' = r.evaluated
           /\ loaded' = IF r.err.kind # "nil" THEN NoInstance
                        ELSE [nil |-> FALSE, val |-> cfg]
    /\ pc' = "done"
    /\ UNCHANGED <<schema, appName, file, env, op, arg, cfg, lookups, bound,
                   probe, resolved, previous>>

\* The call returns to its caller.
Return ==
    /\ pc = "done"
    /\ pc' = "idle"
    /\ op' = "none"
    /\ arg' = NoArg
    /\ cfg' = <<>>
    /\ file' = NoFile
    /\ result' = NilError
    /\ lookups' = <<>>
    /\ evaluated' = FALSE
    /\ steps' = <<>>
    /\ bound' = NoBinding
    /\ loaded' = NoInstance
    /\ UNCHANGED <<schema, appName, env, probe, resolved, previous>>

\* The audit call returns to a caller that keeps its instance, the mode it
\* ran in and its result, and calls again later.
ReturnKeeping ==
    /\ pc = "done"
    /\ op = "checkEnvStrict"
    /\ previous' = [called |-> TRUE, val |-> arg.val, mode |-> DeploymentMode,
                    err |-> result]
    /\ pc' = "idle"
    /\ op' = "none"
    /\ arg' = NoArg
    /\ result' = NilError
    /\ lookups' = <<>>
    /\ UNCHANGED <<schema, appName, file, env, cfg, evaluated, steps, bound,
                   loaded, probe, resolved>>

Init ==
    /\ schema \in RootTypes
    /\ appName \in AppNames
    /\ env = [name \in EnvNames(appName, schema) |-> Unset]
    /\ file = NoFile
    /\ pc = "idle"
    /\ op = "none"
    /\ arg = NoArg
    /\ cfg = <<>>
    /\ result = NilError
    /\ lookups = <<>>
    /\ evaluated = FALSE
    /\ steps = <<>>
    /\ bound = NoBinding
    /\ loaded = NoInstance
    /\ previous = NoPrevious
    /\ probe = Field(n_Host, NoTags, "string", "", NoDefault)
    /\ resolved = NotResolved

Next ==
    \/ Setenv
    \/ Unsetenv
    \/ CallCheckEnvStrict
    \/ CallValidate
    \/ CallValidateNonStruct
    \/ LoadDefaults
    \/ LoadDecode
    \/ LoadAudit
    \/ LoadValidate
    \/ Return

Spec == Init /\ [][Next]_vars

---------------------------------------------------------------------------
(* Audit calls one after the other, the environment changing in between *)

\* The schemas of the tests that call the audit several times.
InitSequence ==
    /\ Init
    /\ schema \in { "TestConfig", "StrictConfig" }

SpecSequence ==
    InitSequence
    /\ [][Setenv \/ Unsetenv \/ CallCheckEnvStrict \/ ReturnKeeping]_vars

---------------------------------------------------------------------------
(* resolveKeyName on its own, over the fields ProbeFields *)

InitResolve ==
    /\ probe \in ProbeFields
    /\ resolved = NotResolved
    /\ schema = "TestConfig"
    /\ appName = w_app
    /\ env = [name \in EnvNames(w_app, "TestConfig") |-> Unset]
    /\ file = NoFile
    /\ pc = "idle"
    /\ op = "none"
    /\ arg = NoArg
    /\ cfg = <<>>
    /\ result = NilError
    /\ lookups = <<>>
    /\ evaluated = FALSE
    /\ steps = <<>>
    /\ bound = NoBinding
    /\ loaded = NoInstance
    /\ previous = NoPrevious

\* A call resolveKeyName(probe), and a call of the callback given to
\* RegisterTagNameFunc on the same field.
Resolve ==
    /\ ~resolved.called
    /\ resolved' = [called |-> TRUE, key |-> resolveKeyName(probe),
                    name |-> TagNameFunc(probe)]
    /\ UNCHANGED <<probe, schema, appName, file, env, pc, op, arg, cfg, result,
                   lookups, evaluated, steps, bound, loaded, previous>>

NextResolve == Resolve

SpecResolve == InitResolve /\ [][NextResolve]_vars

---------------------------------------------------------------------------
(* currentKey on its own: the prefix and keys of a walk two levels deep *)

\* Keys in lower, upper and mixed case, with digits and separators.
ComposeKeys ==
    { <<"a">>, <<"A","b">>, <<"d","b","_","H","o","s","t">>, <<"x","1">>, w_app }

InitCompose ==
    /\ arg \in { [val |-> <<a, b, c>>, byPtr |-> FALSE, trans |-> FALSE] :
                   a \in ComposeKeys \cup { <<>> },
                   b \in ComposeKeys, c \in ComposeKeys }
    /\ probe = Field(n_Host, NoTags, "string", "", NoDefault)
    /\ resolved = NotResolved
    /\ schema = "TestConfig"
    /\ appName = w_app
    /\ env = [name \in EnvNames(w_app, "TestConfig") |-> Unset]
    /\ file = NoFile
    /\ pc = "idle"
    /\ op = "none"
    /\ cfg = <<>>
    /\ result = NilError
    /\ lookups = <<>>
    /\ evaluated = FALSE
    /\ steps = <<>>
    /\ bound = NoBinding
    /\ loaded = NoInstance
    /\ previous = NoPrevious

\* currentKey as the walk computes it for the prefix a, a struct field of
\* key b and its leaf of key c (levelwise); for a and the key composed of b
\* and c (nested); for the empty prefix and b (single).
Compose ==
    /\ pc = "idle"
    /\ LET a == arg.val[1]
           b == arg.val[2]
           c == arg.val[3]
       IN  result' = [kind |-> "key",
                      levelwise |-> composeKey(composeKey(a, b), c),
                      nested |-> composeKey(a, composeKey(b, c)),
                      single |-> composeKey(<<>>, b)]
    /\ op' = "composeKey"
    /\ pc' = "done"
    /\ UNCHANGED <<schema, appName, file, env, arg, cfg, lookups, evaluated,
                   steps, bound, loaded, probe, resolved, previous>>

SpecCompose == InitCompose /\ [][Compose]_vars

---------------------------------------------------------------------------
(* What the statements below speak of *)

\* The value at path p of the struct value v of type T (through pointers).
RECURSIVE ValueAt(_, _, _)
ValueAt(T, v, p) ==
    IF p = <<>> THEN v
    ELSE LET f == Fields(T)[Head(p)]
             x == v[Head(p)]
         IN  IF Len(p) = 1 THEN x
             ELSE ValueAt(f.Elem, IF f.Kind = "ptr" THEN x.elem ELSE x, Tail(p))

\* Every field along p is exported and has a key.
Visible(T, p) ==
    \A k \in 1..Len(p) :
        /\ IsExported(FieldsAlong(T, p)[k])
        /\ resolveKeyName(FieldsAlong(T, p)[k]) # <<>>

\* No reference on the way to p is nil in v.
Present(T, v, p) ==
    \A k \in 1..(Len(p) - 1) :
        FieldsAlong(T, p)[k].Kind = "ptr" => ~ValueAt(T, v, SubSeq(p, 1, k)).nil

\* The environment-mandatory leaves of the instance v: marked env:"strict",
\* reached through exported, non-ignored fields and present references.
Mandatory(T, v) ==
    { p \in StrictPaths(T) : Visible(T, p) /\ Present(T, v, p) }

\* The fully-qualified variable of the leaf at p.
VarOf(p) == QualifiedName(appName, ResolvedKeys(schema, p))

\* The variable is unset or set to the empty string.
Missing(name) ==
    \/ name \notin DOMAIN env
    \/ ~env[name].set
    \/ env[name].val = <<>>

\* The deployment mode is production-like.
ProductionMode ==
    LET mode == IF ~Missing(GO_ENV) THEN env[GO_ENV].val
                ELSE IF ~Missing(APP_ENV) THEN env[APP_ENV].val
                ELSE <<>>
    IN  ToLower(mode) \in { w_production, w_prod }

\* An audit has just returned: a direct call, or step 6 of Load.
AuditReturned ==
    \/ op = "checkEnvStrict" /\ pc = "done"
    \/ op = "Load" /\ steps # <<>> /\ steps[Len(steps)] = "audit"

\* The instance that audit was given.
Audited == IF op = "Load" THEN cfg ELSE arg.val

\* The variables the audit read for fields, in order.
FieldLookups ==
    SelectSeq(lookups, LAMBDA n : n # GO_ENV /\ n # APP_ENV)

---------------------------------------------------------------------------
(* C1: in production mode audit returns a ViolationError exactly when some *)
(* environment-mandatory leaf (env:"strict", reached through exported,     *)
(* non-ignored fields and present references) has its variable, the upper- *)
(* cased "_"-joined application name and key path (the key path alone for  *)
(* an empty application name), unset or empty; the error names such a      *)
(* variable; when every such variable is non-empty audit returns Ok.       *)
C1_AuditFindsMissingVariable ==
    (AuditReturned /\ ProductionMode) =>
        LET missing == { p \in Mandatory(schema, Audited) : Missing(VarOf(p)) }
        IN  /\ result.kind \in { "nil", "violation" }
            /\ (result.kind = "violation") <=> (missing # {})
            /\ result.kind = "violation" =>
                  \E p \in missing : result.var = VarOf(p)

C1_Witness ==
    /\ op = "checkEnvStrict" /\ pc = "done"
    /\ ProductionMode
    /\ schema = "TestConfig"
    /\ result.kind = "violation"
    /\ result.var = <<"M","Y","A","P","P","_","D","A","T","A","B","A","S","E",
                      "_","P","A","S","S","W","O","R","D">>

(* C2: when the deployment mode is not production-like ("dev", or no mode *)
(* set), audit returns Ok whatever the instance and the environment, even  *)
(* with mandatory variables missing, and reads no variable for any field.  *)
C2_NoAuditOutsideProduction ==
    (AuditReturned /\ ~ProductionMode) =>
        /\ result.kind = "nil"
        /\ FieldLookups = <<>>

C2_Witness ==
    /\ op = "checkEnvStrict" /\ pc = "done"
    /\ ~Missing(GO_ENV) /\ env[GO_ENV].val = w_dev
    /\ \E p \in Mandatory(schema, arg.val) : Missing(VarOf(p))
    /\ result.kind = "nil"

(* C3: in production mode, whenever Load returns an instance, every       *)
(* environment-mandatory leaf of that instance holds the value of its      *)
(* environment variable, never a value taken from the file or a default.   *)
C3_SecretsComeFromEnvironment ==
    (op = "Load" /\ pc = "done" /\ ProductionMode /\ ~loaded.nil) =>
        \A p \in Mandatory(schema, loaded.val) :
            /\ ~Missing(VarOf(p))
            /\ ValueAt(schema, loaded.val, p) = env[VarOf(p)].val

---------------------------------------------------------------------------
(* C4, as stated: for every field that carries a mapstructure annotation,  *)
(* resolveKeyName returns the annotation's name-before-options, whatever   *)
(* the yaml, json and toml annotations.                                    *)
C4_PrimaryNameAlwaysWins ==
    (resolved.called /\ TagGet(probe, "mapstructure") # <<>>) =>
        resolved.key = SplitFirst(TagGet(probe, "mapstructure"))

(* C4, amended: for every field whose mapstructure annotation has a        *)
(* non-empty name-before-options other than "-", resolveKeyName returns    *)
(* that name, whatever the yaml, json and toml annotations; no key holds a *)
(* tag option.                                                             *)
C4_PrimaryNameWins ==
    resolved.called =>
        LET name == SplitFirst(TagGet(probe, "mapstructure"))
        IN  /\ (name # <<>> /\ name # w_dash) => resolved.key = name
            /\ Index(resolved.key, ",") = 0

C4_Witness ==
    /\ resolved.called
    /\ TagGet(probe, "mapstructure") = <<"m", ",", "o">>
    /\ TagGet(probe, "yaml") = <<"y">>
    /\ TagGet(probe, "json") = <<"j", ",", "o">>
    /\ resolved.key = <<"m">>

(* C5: for every field whose mapstructure name is exactly "-",             *)
(* resolveKeyName returns Ignored (the empty key), also when yaml, json or *)
(* toml annotations with usable names are present; neither a lower family  *)
(* nor the identifier is used.                                             *)
C5_DashTerminates ==
    (resolved.called /\ SplitFirst(TagGet(probe, "mapstructure")) = w_dash) =>
        resolved.key = <<>>

C5_Witness ==
    /\ resolved.called
    /\ TagGet(probe, "mapstructure") = w_dash
    /\ TagGet(probe, "yaml") = <<"y">>
    /\ TagGet(probe, "toml") = <<"t">>
    /\ resolved.key = <<>>

---------------------------------------------------------------------------
\* The references (pointer fields) on the way to the leaf at p.
References(T, p) ==
    { k \in 1..(Len(p) - 1) : FieldsAlong(T, p)[k].Kind = "ptr" }

\* The mandatory leaves of the audited instance whose variable is missing.
MissingLeaves ==
    { p \in Mandatory(schema, Audited) : Missing(VarOf(p)) }

(* C6: in production mode the audit skips a nil pointer-to-struct field    *)
(* without error although the struct type holds env:"strict" leaves: it    *)
(* reads none of their variables and returns Ok when nothing else is       *)
(* missing; when the pointer is not nil and the variable of an interior    *)
(* leaf is missing it returns a ViolationError, which names that leaf's    *)
(* composed key (application name, the pointer field's key and the leaf's  *)
(* key joined by "_", upper-cased) when no other variable is missing.      *)
C6_NilReferenceSkipped ==
    (AuditReturned /\ ProductionMode) =>
        \A p \in { q \in StrictPaths(schema) :
                     Visible(schema, q) /\ References(schema, q) # {} } :
            /\ ~Present(schema, Audited, p) =>
                  /\ \A k \in 1..Len(lookups) : lookups[k] # VarOf(p)
                  /\ result.kind = "violation" => result.var # VarOf(p)
                  /\ MissingLeaves = {} => result.kind = "nil"
            /\ (Present(schema, Audited, p) /\ Missing(VarOf(p))) =>
                  /\ result.kind = "violation"
                  /\ MissingLeaves = {p} =>
                        result = ViolationError(
                                   FieldsAlong(schema, p)[Len(p)].Name,
                                   ResolvedKeys(schema, p)[Len(p)],
                                   VarOf(p))

C6_Witness ==
    /\ AuditReturned /\ ProductionMode
    /\ schema = "StrictConfig" /\ appName = w_app
    /\ ~Audited[2].nil
    /\ result.kind = "violation"
    /\ result.var = <<"M","Y","A","P","P","_","S","U","B","_",
                      "A","P","I","_","K","E","Y">>

---------------------------------------------------------------------------
\* Validate has just returned: a direct call, or step 7 of Load (which
\* passes &cfg).
ValidateReturned ==
    \/ op = "Validate" /\ pc = "done"
    \/ op = "Load" /\ steps # <<>> /\ steps[Len(steps)] = "validate"

\* The value Validate was given, and whether as a pointer.
Validated == IF op = "Load" THEN cfg ELSE arg.val
ValidatedByPtr == IF op = "Load" THEN TRUE ELSE arg.byPtr

(* C7: when the value passed to Validate has the method Validate() error   *)
(* in its method set, Validate returns that method's result as it is and   *)
(* validate.Struct is not run for the call, also when the value breaks the *)
(* rules of its validate annotations.                                      *)
C7_SelfValidationBypassesRules ==
    (ValidateReturned /\ HasValidateMethod(schema) /\ ValidatedByPtr) =>
        /\ result = SelfValidate(Validated, schema)
        /\ ~evaluated

C7_Witness ==
    /\ op = "Validate" /\ pc = "done"
    /\ schema = "RuledRequest" /\ arg.byPtr
    /\ arg.val[1] # <<>> /\ arg.val[2] = <<>>
    /\ ValidateStruct(arg.val, schema) # <<>>
    /\ result = NilError
    /\ ~evaluated

---------------------------------------------------------------------------
\* The leaves of the validated instance that break their rule, reached
\* through exported fields and present references.
ViolatingLeaves ==
    { p \in LeafPaths(schema) :
        /\ \A k \in 1..Len(p) : IsExported(FieldsAlong(schema, p)[k])
        /\ Present(schema, Validated, p)
        /\ Violates(TagGet(FieldsAlong(schema, p)[Len(p)], "validate"),
                    FieldsAlong(schema, p)[Len(p)].Kind,
                    ValueAt(schema, Validated, p)) }

(* C8: in the declarative path every reported violation is keyed by the    *)
(* "."-joined resolved names (resolveKeyName) of the fields from the root   *)
(* down to the violating field, without the root type's name, never by a   *)
(* raw identifier of an annotated field.                                   *)
C8_ViolationsKeyedByResolvedName ==
    (ValidateReturned /\ evaluated) =>
        /\ (result.kind = "validation") <=> (ViolatingLeaves # {})
        /\ result.kind = "validation" =>
              DOMAIN result.Errors =
                 { Join(ResolvedKeys(schema, p), <<".">>) : p \in ViolatingLeaves }

---------------------------------------------------------------------------
\* currentKey of recursiveEnvCheck at the field at path p of type T, the
\* walk having started with prefix.
RECURSIVE CurrentKeyAt(_, _, _)
CurrentKeyAt(prefix, T, p) ==
    LET field == Fields(T)[Head(p)]
        currentKey == composeKey(prefix, resolveKeyName(field))
    IN  IF Len(p) = 1 THEN currentKey
        ELSE CurrentKeyAt(currentKey, field.Elem, Tail(p))

\* The names the rule evaluator reports the fields along p under.
ReportedNames(T, p) ==
    [k \in 1..Len(p) |-> ReportedName(FieldsAlong(T, p)[k])]

(* C9: for every leaf the decoder binds to an environment variable, that   *)
(* variable is the one the audit checks for the leaf, and both are the     *)
(* application name and the names the validator reports, joined by "_" and *)
(* upper-cased.                                                            *)
C9_NamesAgree ==
    (op = "Load" /\ pc \in { "decoded", "audited", "done" }) =>
        \A p \in DOMAIN bound :
            /\ bound[p] = CurrentKeyAt(appName, schema, p)
            /\ bound[p] = QualifiedName(appName, ReportedNames(schema, p))

---------------------------------------------------------------------------
\* The steps of Load, in order.
LoadOrder == << "defaults", "decode", "audit", "validate" >>

(* C10: Load runs defaulting, decoding, audit and validation in this order *)
(* and stops at the first step that fails: a decoding error ends it after  *)
(* two steps, a ViolationError after three; validation starts only after   *)
(* the audit returned Ok, so in production an instance with a missing      *)
(* mandatory variable and a broken rule yields the ViolationError; on      *)
(* every error Load returns no instance, and an instance when there is     *)
(* none.                                                                   *)
C10_LoadFailsFast ==
    op = "Load" =>
        /\ Len(steps) \in 1..Len(LoadOrder)
        /\ steps = SubSeq(LoadOrder, 1, Len(steps))
        /\ result.kind \in { "read", "unmarshal" } =>
              (pc = "done" /\ Len(steps) = 2)
        /\ result.kind = "violation" => (pc = "done" /\ Len(steps) = 3)
        /\ result.kind \in { "validation", "self" } =>
              (pc = "done" /\ Len(steps) = 4)
        /\ (Len(steps) >= 3 /\ ProductionMode /\ MissingLeaves # {}) =>
              (result.kind = "violation" /\ Len(steps) = 3)
        /\ pc = "done" => (loaded.nil <=> result.kind # "nil")
        /\ pc # "done" => (loaded.nil /\ result.kind = "nil")
        /\ ~loaded.nil => (Len(steps) = 4 /\ loaded.val = cfg)

C10_Witness ==
    /\ op = "Load" /\ pc = "done"
    /\ ProductionMode
    /\ MissingLeaves # {}
    /\ ValidateStruct(cfg, schema) # <<>>
    /\ result.kind = "violation"
    /\ steps = << "defaults", "decode", "audit" >>
    /\ loaded.nil

---------------------------------------------------------------------------
\* The rule of the leaf at path p.
RuleAt(p) == TagGet(FieldsAlong(schema, p)[Len(p)], "validate")

(* C11: in the declarative path Validate returns Ok when no field breaks   *)
(* its rule and otherwise one ValidationError whose map holds, for every   *)
(* violating field, an entry under the field's path that reports the       *)
(* field's broken rule, also when two fields resolve to the same path.     *)
C11_EveryViolationReported ==
    (ValidateReturned /\ evaluated) =>
        /\ ViolatingLeaves = {} => result = NilError
        /\ ViolatingLeaves # {} =>
              /\ result.kind = "validation"
              /\ \A p \in ViolatingLeaves :
                    LET n == Join(ReportedNames(schema, p), <<".">>)
                    IN  /\ n \in DOMAIN result.Errors
                        /\ result.Errors[n].text = RuleAt(p)

---------------------------------------------------------------------------
\* No character of s is a lower-case letter.
IsUpperCase(s) ==
    \A i \in 1..Len(s) : \A k \in 1..Len(LowerLetters) : s[i] # LowerLetters[k]

(* C12: for non-empty a, b, c, composing level by level and composing a    *)
(* with the composed key of b and c both give the upper-cased              *)
(* a + "_" + b + "_" + c; with an empty prefix the key is the upper-cased  *)
(* key with no leading separator; every composed key is upper-case.        *)
C12_CompositionFlattens ==
    (op = "composeKey" /\ pc = "done") =>
        LET a == arg.val[1]
            b == arg.val[2]
            c == arg.val[3]
            flat == ToUpper(a \o <<"_">> \o b \o <<"_">> \o c)
        IN  /\ a # <<>> => (result.levelwise = flat /\ result.nested = flat)
            /\ a = <<>> => result.levelwise = ToUpper(b \o <<"_">> \o c)
            /\ result.single = ToUpper(b)
            /\ Len(result.single) = Len(b)
            /\ IsUpperCase(result.levelwise)
            /\ IsUpperCase(result.nested)
            /\ IsUpperCase(result.single)

C12_Witness ==
    /\ op = "composeKey" /\ pc = "done"
    /\ arg.val = << w_app, <<"d","b","_","H","o","s","t">>, <<"A","b">> >>
    /\ result.levelwise = <<"M","Y","A","P","P","_","D","B","_","H","O","S","T",
                            "_","A","B">>
    /\ result.nested = result.levelwise
    /\ result.single = <<"D","B","_","H","O","S","T">>

---------------------------------------------------------------------------
(* C13: Validate called with nil, with a value that is no struct, or with  *)
(* a pointer to one, returns an error that is not nil and not a            *)
(* *ValidationError, and does not panic.                                   *)
C13_NonStructRejected ==
    (op = "ValidateNonStruct" /\ pc = "done") =>
        /\ result.kind # "nil"
        /\ result.kind # "validation"
        /\ result.kind # "panic"
        /\ result.kind = "invalid"

C13_Witness ==
    /\ op = "ValidateNonStruct" /\ pc = "done"
    /\ arg.val = << "ptr-int" >>
    /\ result.kind = "invalid"

---------------------------------------------------------------------------
\* The leaf at p is declared before the leaf at q: depth-first, in
\* declaration order.
RECURSIVE PathBefore(_, _)
PathBefore(p, q) ==
    IF p = <<>> \/ q = <<>> THEN FALSE
    ELSE IF Head(p) # Head(q) THEN Head(p) < Head(q)
    ELSE PathBefore(Tail(p), Tail(q))

\* The variables of the leaves S, in the order of their declaration.
VarsInOrder(S) ==
    LET n == Cardinality(S)
        order == CHOOSE f \in [1..n -> S] :
                    \A i, j \in 1..n : i < j => PathBefore(f[i], f[j])
    IN  [k \in 1..n |-> VarOf(order[k])]

(* C14: in production mode the audit reads the variables of the mandatory  *)
(* leaves depth-first in declaration order and stops at the first that is  *)
(* unset or empty: the ViolationError is that one field's (identifier,     *)
(* resolved key, qualified variable), and no variable of a later field is  *)
(* read; with none missing it reads them all and returns Ok.               *)
C14_StopsAtFirstViolation ==
    (AuditReturned /\ ProductionMode) =>
        LET M == Mandatory(schema, Audited)
        IN  IF MissingLeaves = {}
            THEN /\ result = NilError
                 /\ FieldLookups = VarsInOrder(M)
            ELSE LET first == CHOOSE p \in MissingLeaves :
                                 \A q \in MissingLeaves \ {p} : PathBefore(p, q)
                 IN  /\ result = ViolationError(
                                    FieldsAlong(schema, first)[Len(first)].Name,
                                    ResolvedKeys(schema, first)[Len(first)],
                                    VarOf(first))
                     /\ FieldLookups =
                           VarsInOrder({ q \in M : q = first \/ PathBefore(q, first) })

C14_Witness ==
    /\ AuditReturned /\ ProductionMode
    /\ schema = "MultiTagConfig" /\ appName = w_app
    /\ Cardinality(MissingLeaves) = 2
    /\ result.kind = "violation"
    /\ result.field = n_Host
    /\ result.tag = w_db_host
    /\ result.var = <<"M","Y","A","P","P","_","D","B","_","H","O","S","T">>
    /\ FieldLookups = << result.var >>

---------------------------------------------------------------------------
(* C15: nothing is kept between audit calls: whatever calls came before    *)
(* and whatever the environment was then, a call returns a ViolationError  *)
(* exactly when the mode is production-like and a mandatory variable of    *)
(* its instance is missing in the environment as it is during the call,    *)
(* and the variable named is missing then.                                 *)
C15_NothingCachedBetweenCalls ==
    (op = "checkEnvStrict" /\ pc = "done") =>
        /\ (result.kind = "violation") <=> (ProductionMode /\ MissingLeaves # {})
        /\ result.kind # "violation" => result = NilError
        /\ result.kind = "violation" => Missing(result.var)
        /\ lookups # <<>> /\ lookups[1] = GO_ENV

C15_Witness ==
    /\ op = "checkEnvStrict" /\ pc = "done"
    /\ previous.called
    /\ previous.val = arg.val
    /\ previous.mode = w_production
    /\ previous.err.kind = "violation"
    /\ ~ProductionMode
    /\ MissingLeaves # {}
    /\ result = NilError

---------------------------------------------------------------------------
(* C16: the callback registered with RegisterTagNameFunc returns what      *)
(* resolveKeyName returns, for every combination of absent, empty-named,   *)
(* "-", named and optioned mapstructure, yaml, json and toml annotations   *)
(* and every field identifier.                                             *)
C16_CallbackEqualsResolver ==
    resolved.called => resolved.name = resolved.key

C16_Witness ==
    /\ resolved.called
    /\ probe.Name = n_secret
    /\ TagGet(probe, "mapstructure") = <<",", "o">>
    /\ TagGet(probe, "yaml") = <<>>
    /\ TagGet(probe, "json") = <<"-", ",", "o">>
    /\ TagGet(probe, "toml") = <<"t">>
    /\ resolved.name = <<>>
    /\ resolved.key = <<>>

---------------------------------------------------------------------------
(* C17: in production mode the audit skips an unexported field and a field *)
(* whose key resolves to Ignored entirely: every variable it reads is the  *)
(* variable of a mandatory leaf reached through exported, non-ignored      *)
(* fields only, a ViolationError names such a leaf, and with no such leaf  *)
(* missing the audit returns Ok whatever lies under the skipped fields.    *)
C17_HiddenFieldsSkipped ==
    (AuditReturned /\ ProductionMode) =>
        LET M == Mandatory(schema, Audited)
        IN  /\ \A k \in 1..Len(FieldLookups) :
                  \E p \in M : FieldLookups[k] = VarOf(p)
            /\ result.kind = "violation" =>
                  \E p \in M :
                     /\ result.var = VarOf(p)
                     /\ result.field = FieldsAlong(schema, p)[Len(p)].Name
            /\ MissingLeaves = {} => result = NilError

C17_Witness ==
    /\ op = "checkEnvStrict" /\ pc = "done"
    /\ ProductionMode
    /\ schema = "MaskedConfig" /\ appName = w_app
    /\ ~arg.val[3].nil
    /\ StrictPaths(schema) \ Mandatory(schema, arg.val) # {}
    /\ FieldLookups = << <<"M","Y","A","P","P","_","T","O","K","E","N">> >>
    /\ result = NilError

---------------------------------------------------------------------------
(* C18: the audit is active exactly when the lower-cased mode is           *)
(* "production" or "prod", the mode being GO_ENV when it is non-empty and  *)
(* APP_ENV otherwise: APP_ENV is read only when GO_ENV is unset or empty   *)
(* (GO_ENV = "dev" with a production-like APP_ENV leaves the audit off),   *)
(* and upper-case spellings such as "PROD" activate it.                    *)
C18_ActivationGate ==
    AuditReturned =>
        LET go   == IF env[GO_ENV].set THEN env[GO_ENV].val ELSE <<>>
            app  == IF env[APP_ENV].set THEN env[APP_ENV].val ELSE <<>>
            mode == IF go # <<>> THEN go ELSE app
            active == ToLower(mode) \in { w_production, w_prod }
        IN  /\ lookups # <<>> /\ lookups[1] = GO_ENV
            /\ go # <<>> => \A k \in 1..Len(lookups) : lookups[k] # APP_ENV
            /\ go = <<>> => (Len(lookups) >= 2 /\ lookups[2] = APP_ENV)
            /\ ~active => (result = NilError /\ FieldLookups = <<>>)
            /\ (active /\ Mandatory(schema, Audited) # {}) => FieldLookups # <<>>
            /\ (active /\ MissingLeaves # {}) => result.kind = "violation"

C18_Witness ==
    /\ op = "checkEnvStrict" /\ pc = "done"
    /\ env[GO_ENV].set /\ env[GO_ENV].val = w_dev
    /\ env[APP_ENV].set /\ env[APP_ENV].val = w_prod
    /\ MissingLeaves # {}
    /\ lookups = << GO_ENV >>
    /\ result = NilError

====
